---- MODULE Spec2Model ----
(***************************************************************************)
(* Model of the Emporia Vue sync worker (backend/python/emporia_worker.py). *)
(* The state is the worker's local variables in main(), its position in    *)
(* the loop, the three SQLite tables it touches and the lines it printed   *)
(* in the current iteration.  One action per statement that can raise or   *)
(* be interrupted.  Watts are integers in thousandths of a watt.           *)
(***************************************************************************)
EXTENDS Integers, Sequences, FiniteSets, TLC

\* ------------------------------------------------------------------ bounds
\* Seconds on the wall clock advance by one abstract tick per completed sleep.
MaxTime == 6
\* Rows the raw-readings table may hold before the model stops storing.
MaxReadings == 2
\* Channels in a payload of the one-cycle specification.
MaxChannels == 3

\* --------------------------------------------------------------- constants
POLL_INTERVAL == 2
WAIT_CONFIG_SLEEP == 30
NO_DEVICES_SLEEP == 60
RECONNECT_SLEEP == 10
ERROR_SLEEP == 60
RETRY_IN == 60
FAILURE_THRESHOLD == 5

\* Python's None for a string-valued and for a number-valued variable.
None == "None"
NoNum == -1

\* ------------------------------------------------------------------- state
VARIABLES
    DEMO_MODE,              \* module constant, from the environment
    PYEMVUE_AVAILABLE,      \* module constant, set by the import
    pc,                     \* position of main()
    vue,                    \* None, "client" (created) or "auth" (logged in)
    device_gid,             \* local of main()
    consecutive_failures,   \* local of main()
    email, password,        \* locals of main()
    devices,                \* local of main(): result of vue.get_devices()
    channels,               \* local of poll_emporia: device.channels
    reading,                \* locals ts,total,phase_a,phase_b,circuits of a cycle
    success,                \* local of main(): result of poll_emporia
    power_config,           \* table power_config
    power_readings_raw,     \* table power_readings_raw, in insertion order
    power_learning_status,  \* row id = 1 of power_learning_status
    db_open,                \* the sqlite3 connection is open
    now,                    \* int(time.time())
    out,                    \* lines printed by emit_json in this iteration
    hist                    \* history: what the run has done so far

vars == <<DEMO_MODE, PYEMVUE_AVAILABLE, pc, vue, device_gid, consecutive_failures,
          email, password, devices, channels, reading, success, power_config,
          power_readings_raw, power_learning_status, db_open, now, out, hist>>

\* ----------------------------------------------------------------- helpers
\* Python truthiness of an optional string: None and "" are falsy.
Truthy(s) == s # None /\ s # ""

Emails == {None, "user@example.com"}
Passwords == {"", "secret"}
\* Persisted device identifiers the table may hold at start.
Gids == {None, "", "101"}
\* Results of vue.get_devices(): device gids, in the order returned.
DeviceLists == {<< >>, <<202, 101>>}

\* str(n) for the gids the upstream may return.
Str(n) == IF n = 101 THEN "101" ELSE "202"

NoTable == [exists |-> FALSE, emporia_email |-> None, emporia_password |-> None,
            device_gid |-> None]

ConfigStates ==
    {NoTable} \cup
    [exists : {TRUE}, emporia_email : Emails, emporia_password : Passwords,
     device_gid : Gids]

\* In demo mode the worker never touches power_config: two samples of it.
DemoConfigStates ==
    {NoTable,
     [exists |-> TRUE, emporia_email |-> "user@example.com",
      emporia_password |-> "secret", device_gid |-> "101"]}

NoCircuits == [n \in {} |-> 0]

NoReading == [ts |-> NoNum, total |-> 0, phase_a |-> NoNum, phase_b |-> NoNum,
              circuits |-> NoCircuits]

\* round(v, 2) on thousandths: to the nearest hundredth, ties to even.
Round2(v) ==
    LET q == v \div 10
        r == v % 10
    IN  IF r < 5 THEN q * 10
        ELSE IF r > 5 THEN (q + 1) * 10
        ELSE IF q % 2 = 0 THEN q * 10 ELSE (q + 1) * 10

RoundCircuits(c) == [k \in DOMAIN c |-> Round2(c[k])]

\* One printed line.  Every line has the same fields; unused ones are None/NoNum.
Line(type, status, error, gid, retry, demo, r) ==
    [type |-> type, status |-> status, error |-> error, device_gid |-> gid,
     retry_in |-> retry, demo |-> demo, ts |-> r.ts, total |-> r.total,
     phase_a |-> r.phase_a, phase_b |-> r.phase_b, circuits |-> r.circuits]

StatusLine(s, gid) == Line(None, s, None, gid, NoNum, FALSE, NoReading)
ErrorLine(e, type, gid, retry) == Line(type, None, e, gid, retry, FALSE, NoReading)

\* A channel of a usage payload; usage NoNum stands for None.
Channel(num, name, usage) == [channel_num |-> num, name |-> name, usage |-> usage]

\* The payload vue.get_device_list_usage returns for the device in the loop:
\* a total, a first leg at 0, no second leg, a duplicated circuit name, an
\* unnamed channel and a named channel without usage.
PayloadMixed ==
    << Channel("1,2,3", "Main", 1200004), Channel("1,2", "", 0),
       Channel("5", "Dryer", 300005), Channel("6", "Dryer", 100000),
       Channel("7", "", 5000), Channel("8", "Idle", NoNum) >>
Payloads == {PayloadMixed}

\* circuits[name] = usage
Put(c, name, usage) ==
    [k \in DOMAIN c \cup {name} |-> IF k = name THEN usage ELSE c[k]]

\* A circuit name kept from its first channel instead of overwritten.
ParseChannelFirstWins(r, channel) ==
    LET usage == IF channel.usage = NoNum THEN 0 ELSE channel.usage
    IN  IF channel.channel_num = "1,2,3" THEN [r EXCEPT !.total = usage]
        ELSE IF channel.channel_num = "1,2" THEN [r EXCEPT !.phase_a = usage]
        ELSE IF channel.channel_num = "3,4" THEN [r EXCEPT !.phase_b = usage]
        ELSE IF Truthy(channel.name) /\ usage > 0
                /\ channel.name \notin DOMAIN r.circuits
             THEN [r EXCEPT !.circuits = Put(r.circuits, channel.name, usage)]
        ELSE r

\* The body of the loop over device.channels, for one channel.
ParseChannel(r, channel) ==
    LET usage == IF channel.usage = NoNum THEN 0 ELSE channel.usage
    IN  IF channel.channel_num = "1,2,3" THEN [r EXCEPT !.total = usage]
        ELSE IF channel.channel_num = "1,2" THEN [r EXCEPT !.phase_a = usage]
        ELSE IF channel.channel_num = "3,4" THEN [r EXCEPT !.phase_b = usage]
        ELSE IF Truthy(channel.name) /\ usage > 0
             THEN [r EXCEPT !.circuits = Put(r.circuits, channel.name, usage)]
        ELSE r

RECURSIVE ParseChannels(_, _, _)
ParseChannels(r, chs, i) ==
    IF i > Len(chs) THEN r
    ELSE ParseChannels(ParseChannel(r, chs[i]), chs, i + 1)

\* ts, total, phase_a, phase_b, circuits as poll_emporia computes them.
PollReading(ts, chs) ==
    ParseChannels([NoReading EXCEPT !.ts = ts], chs, 1)

\* Only an absent phase printed as None.
PollReadingLineNoCoalesce(r) ==
    Line("reading", None, None, None, NoNum, FALSE,
         [ts |-> r.ts, total |-> Round2(r.total),
          phase_a |-> IF r.phase_a = NoNum THEN NoNum ELSE Round2(r.phase_a),
          phase_b |-> IF r.phase_b = NoNum THEN NoNum ELSE Round2(r.phase_b),
          circuits |-> RoundCircuits(r.circuits)])

\* What poll_emporia prints for a reading: rounded, a falsy phase as None.
PollReadingLine(r) ==
    Line("reading", None, None, None, NoNum, FALSE,
         [ts |-> r.ts, total |-> Round2(r.total),
          phase_a |-> IF r.phase_a = NoNum \/ r.phase_a = 0 THEN NoNum
                      ELSE Round2(r.phase_a),
          phase_b |-> IF r.phase_b = NoNum \/ r.phase_b = 0 THEN NoNum
                      ELSE Round2(r.phase_b),
          circuits |-> RoundCircuits(r.circuits)])

\* Samples of the random draws of generate_demo_reading.
DemoBaseLoads == {812345}
DemoHvac == {0, 250005}

\* The demo circuits filtered like the live ones: an idle HVAC left out.
DemoReadingNoIdle(ts, base_load, hvac) ==
    [ts |-> ts, total |-> base_load,
     phase_a |-> (base_load * 55) \div 100 + 12345,
     phase_b |-> (base_load * 45) \div 100 - 12345,
     circuits |-> [k \in (IF hvac > 0 THEN {"HVAC"} ELSE {})
                          \cup {"Kitchen", "Living Room", "Office"} |->
                     IF k = "HVAC" THEN hvac
                     ELSE IF k = "Kitchen" THEN 125000
                     ELSE IF k = "Living Room" THEN 50000 ELSE 90000]]

\* ts, total, phase_a, phase_b, circuits as generate_demo_reading computes them.
DemoReading(ts, base_load, hvac) ==
    [ts |-> ts, total |-> base_load,
     phase_a |-> (base_load * 55) \div 100 + 12345,
     phase_b |-> (base_load * 45) \div 100 - 12345,
     circuits |-> [k \in {"HVAC", "Kitchen", "Living Room", "Office"} |->
                     IF k = "HVAC" THEN hvac
                     ELSE IF k = "Kitchen" THEN 125000
                     ELSE IF k = "Living Room" THEN 50000 ELSE 90000]]

\* What generate_demo_reading prints: rounded, flagged demo.
DemoReadingLine(r) ==
    Line("reading", None, None, None, NoNum, TRUE,
         [ts |-> r.ts, total |-> Round2(r.total), phase_a |-> Round2(r.phase_a),
          phase_b |-> Round2(r.phase_b), circuits |-> RoundCircuits(r.circuits)])

\* ------------------------------------------------------- persistence gateway
\* The password looked up under the email's key.
GetCredentialsEmailOnly(cfg) ==
    IF cfg.exists THEN <<cfg.emporia_email, cfg.emporia_email>>
    ELSE <<None, None>>

\* get_credentials: (None, None) when the table does not exist.
GetCredentials(cfg) ==
    IF cfg.exists THEN <<cfg.emporia_email, cfg.emporia_password>>
    ELSE <<None, None>>

\* The persisted identifier never found.
GetDeviceGidNone(cfg) == None

\* get_device_gid: None when the table does not exist or holds no row.
GetDeviceGid(cfg) == IF cfg.exists THEN cfg.device_gid ELSE None

\* The identifier written under the key of the email.
SaveDeviceGidWrongKey(cfg, gid) == [cfg EXCEPT !.emporia_email = gid]

\* save_device_gid: INSERT OR REPLACE of the row 'device_gid'.
SaveDeviceGid(cfg, gid) == [cfg EXCEPT !.device_gid = gid]

\* store_reading: INSERT of one row.
StoreReading(table, r) == Append(table, r)

\* first_reading_ts assigned without COALESCE.
UpdateLearningStatusOverwrite(row, ts, t) ==
    [first_reading_ts |-> ts,
     total_readings |-> row.total_readings + 1,
     last_updated |-> t]

\* update_learning_status: COALESCE(first_reading_ts, ts), total_readings + 1.
UpdateLearningStatus(row, ts, t) ==
    [first_reading_ts |-> IF row.first_reading_ts = NoNum THEN ts
                          ELSE row.first_reading_ts,
     total_readings |-> row.total_readings + 1,
     last_updated |-> t]

\* -------------------------------------------------------------------- Init
Hist0 ==
    [lastSleep |-> 0, interrupted |-> FALSE, bumps |-> << >>, pollFails |-> 0,
     loopError |-> FALSE, rows0 |-> 0, total0 |-> 0, cfg0 |-> NoTable,
     queried |-> FALSE, polls |-> 0, session_gid |-> None, noData |-> FALSE,
     persistRaised |-> FALSE, credsRead |-> FALSE, absent0 |-> TRUE]

Init ==
    /\ DEMO_MODE \in BOOLEAN
    /\ PYEMVUE_AVAILABLE \in BOOLEAN
    /\ pc = "loop"
    /\ vue = None
    /\ device_gid = None
    /\ consecutive_failures = 0
    /\ email = None
    /\ password = None
    /\ devices = << >>
    /\ channels = << >>
    /\ reading = NoReading
    /\ success = FALSE
    /\ power_config \in IF DEMO_MODE \/ ~PYEMVUE_AVAILABLE THEN DemoConfigStates
                       ELSE ConfigStates
    /\ power_readings_raw = << >>
    /\ power_learning_status =
           [first_reading_ts |-> NoNum, total_readings |-> 0, last_updated |-> 0]
    /\ db_open = TRUE
    /\ now = 1
    /\ out = << >>
    /\ hist = Hist0

env == <<DEMO_MODE, PYEMVUE_AVAILABLE>>
session == <<vue, device_gid, consecutive_failures>>
creds == <<email, password>>
tables == <<power_config, power_readings_raw, power_learning_status>>

\* An exception other than KeyboardInterrupt leaves the try body of main().
RaiseInLoop ==
    /\ pc' = "handler"
    /\ hist' = [hist EXCEPT !.loopError = TRUE]

\* store_reading or update_learning_status raises in generate_demo_reading
RaiseFromPersist ==
    /\ pc' = "handler"
    /\ hist' = [hist EXCEPT !.loopError = TRUE, !.persistRaised = TRUE]

\* ------------------------------------------------------------ the main loop
\* while True: try: if DEMO_MODE or not PYEMVUE_AVAILABLE
LoopTop ==
    /\ pc = "loop"
    /\ pc' = IF DEMO_MODE \/ ~PYEMVUE_AVAILABLE THEN "demo_store"
             ELSE "get_credentials"
    /\ out' = << >>
    /\ hist' = [hist EXCEPT !.loopError = FALSE,
                            !.rows0 = Len(power_readings_raw),
                            !.total0 = power_learning_status.total_readings,
                            !.cfg0 = power_config,
                            !.queried = FALSE,
                            !.polls = 0,
                            !.noData = FALSE,
                            !.persistRaised = FALSE,
                            !.credsRead = FALSE,
                            !.absent0 = (vue = None)]
    /\ UNCHANGED <<env, session, creds, devices, channels, reading, success, tables,
                   db_open, now>>

\* generate_demo_reading: the draws and store_reading
DemoStore ==
    /\ pc = "demo_store"
    /\ Len(power_readings_raw) < MaxReadings
    /\ \E base_load \in DemoBaseLoads, hvac \in DemoHvac, ok \in BOOLEAN :
          /\ reading' = DemoReading(now, base_load, hvac)
          /\ IF ok
             THEN /\ power_readings_raw' = StoreReading(power_readings_raw, reading')
                  /\ pc' = "demo_update"
                  /\ hist' = hist
             ELSE /\ power_readings_raw' = power_readings_raw
                  /\ RaiseFromPersist
    /\ UNCHANGED <<env, session, creds, devices, channels, success, power_config,
                   power_learning_status, db_open, now, out>>

\* generate_demo_reading: update_learning_status
DemoUpdate ==
    /\ pc = "demo_update"
    /\ \E ok \in BOOLEAN :
          IF ok
          THEN /\ power_learning_status' =
                      UpdateLearningStatus(power_learning_status, reading.ts, now)
               /\ pc' = "demo_emit"
               /\ hist' = [hist EXCEPT !.bumps = Append(@, reading.ts)]
          ELSE /\ power_learning_status' = power_learning_status
               /\ RaiseFromPersist
    /\ UNCHANGED <<env, session, creds, devices, channels, reading, success, power_config,
                   power_readings_raw, db_open, now, out>>

\* generate_demo_reading: emit_json of the reading
DemoEmit ==
    /\ pc = "demo_emit"
    /\ \E ok \in BOOLEAN :
          IF ok
          THEN /\ out' = Append(out, DemoReadingLine(reading))
               /\ pc' = "sleep_demo"
               /\ hist' = hist
          ELSE /\ out' = out
               /\ RaiseInLoop
    /\ UNCHANGED <<env, session, creds, devices, channels, reading, success, tables,
                   db_open, now>>

\* The poll reached without looking at vue.
CheckCredentialsNoConnect ==
    /\ pc = "get_credentials"
    /\ \E ok \in BOOLEAN :
          IF ok
          THEN /\ email' = GetCredentials(power_config)[1]
               /\ password' = GetCredentials(power_config)[2]
               /\ pc' = IF ~Truthy(email') \/ ~Truthy(password') THEN "emit_waiting"
                        ELSE "poll_fetch"
               /\ hist' = [hist EXCEPT !.credsRead = TRUE]
          ELSE /\ UNCHANGED creds
               /\ RaiseInLoop
    /\ UNCHANGED <<env, session, devices, channels, reading, success, tables, db_open,
                   now, out>>

\* email, password = get_credentials(db); if not email or not password
CheckCredentials ==
    /\ pc = "get_credentials"
    /\ \E ok \in BOOLEAN :
          IF ok
          THEN /\ email' = GetCredentials(power_config)[1]
               /\ password' = GetCredentials(power_config)[2]
               /\ pc' = IF ~Truthy(email') \/ ~Truthy(password') THEN "emit_waiting"
                        ELSE IF vue = None THEN "emit_connecting"
                        ELSE "poll_fetch"
               /\ hist' = [hist EXCEPT !.credsRead = TRUE]
          ELSE /\ UNCHANGED creds
               /\ RaiseInLoop
    /\ UNCHANGED <<env, session, devices, channels, reading, success, tables, db_open,
                   now, out>>

\* emit_json({'status': 'waiting_for_config', ...})
EmitWaiting ==
    /\ pc = "emit_waiting"
    /\ \E ok \in BOOLEAN :
          IF ok
          THEN /\ out' = Append(out, StatusLine("waiting_for_config", None))
               /\ pc' = "sleep_config"
               /\ hist' = hist
          ELSE /\ out' = out
               /\ RaiseInLoop
    /\ UNCHANGED <<env, session, creds, devices, channels, reading, success, tables,
                   db_open, now>>

\* if vue is None: emit_json({'status': 'connecting'})
EmitConnecting ==
    /\ pc = "emit_connecting"
    /\ \E ok \in BOOLEAN :
          IF ok
          THEN /\ out' = Append(out, StatusLine("connecting", None))
               /\ pc' = "create_client"
               /\ hist' = hist
          ELSE /\ out' = out
               /\ RaiseInLoop
    /\ UNCHANGED <<env, session, creds, devices, channels, reading, success, tables,
                   db_open, now>>

\* vue = PyEmVue()
CreateClient ==
    /\ pc = "create_client"
    /\ \E ok \in BOOLEAN :
          IF ok
          THEN /\ vue' = "client"
               /\ pc' = "login"
               /\ hist' = [hist EXCEPT !.pollFails = 0]
          ELSE /\ vue' = vue
               /\ RaiseInLoop
    /\ UNCHANGED <<env, device_gid, consecutive_failures, creds, devices, channels, reading,
                   success, tables, db_open, now, out>>

\* vue.login(username=email, password=password)
Login ==
    /\ pc = "login"
    /\ \E ok \in BOOLEAN :
          IF ok
          THEN /\ vue' = "auth"
               /\ pc' = "get_device_gid"
               /\ hist' = hist
          ELSE /\ vue' = vue
               /\ RaiseInLoop
    /\ UNCHANGED <<env, device_gid, consecutive_failures, creds, devices, channels, reading,
                   success, tables, db_open, now, out>>

\* device_gid = get_device_gid(db); if not device_gid
ResolveDevice ==
    /\ pc = "get_device_gid"
    /\ \E ok \in BOOLEAN :
          IF ok
          THEN /\ device_gid' = GetDeviceGid(power_config)
               /\ pc' = IF ~Truthy(device_gid') THEN "get_devices"
                        ELSE "emit_connected"
               /\ hist' = hist
          ELSE /\ device_gid' = device_gid
               /\ RaiseInLoop
    /\ UNCHANGED <<env, vue, consecutive_failures, creds, devices, channels, reading,
                   success, tables, db_open, now, out>>

\* devices = vue.get_devices(); if devices: device_gid = str(devices[0].device_gid)
DiscoverDevices ==
    /\ pc = "get_devices"
    /\ \/ \E list \in DeviceLists :
             /\ devices' = list
             /\ device_gid' = IF list # << >> THEN Str(list[1]) ELSE device_gid
             /\ pc' = IF list # << >> THEN "save_device_gid" ELSE "emit_no_devices"
             /\ hist' = [hist EXCEPT !.queried = TRUE]
       \/ /\ UNCHANGED <<devices, device_gid>>
          /\ pc' = "handler"
          /\ hist' = [hist EXCEPT !.queried = TRUE, !.loopError = TRUE]
    /\ UNCHANGED <<env, vue, consecutive_failures, creds, channels, reading, success,
                   tables, db_open, now, out>>

\* save_device_gid(db, device_gid): raises when the table does not exist
SaveDevice ==
    /\ pc = "save_device_gid"
    /\ \E ok \in BOOLEAN :
          IF ok /\ power_config.exists
          THEN /\ power_config' = SaveDeviceGid(power_config, device_gid)
               /\ pc' = "emit_connected"
               /\ hist' = hist
          ELSE /\ power_config' = power_config
               /\ RaiseInLoop
    /\ UNCHANGED <<env, session, creds, devices, channels, reading, success,
                   power_readings_raw, power_learning_status, db_open, now, out>>

\* emit_json({'error': 'no_devices_found'})
EmitNoDevices ==
    /\ pc = "emit_no_devices"
    /\ \E ok \in BOOLEAN :
          IF ok
          THEN /\ out' = Append(out, ErrorLine("no_devices_found", None, None, NoNum))
               /\ pc' = "sleep_no_devices"
               /\ hist' = hist
          ELSE /\ out' = out
               /\ RaiseInLoop
    /\ UNCHANGED <<env, session, creds, devices, channels, reading, success, tables,
                   db_open, now>>

\* vue = None; continue (after time.sleep(60))
ResetNoDevices ==
    /\ pc = "reset_no_devices"
    /\ vue' = None
    /\ pc' = "loop"
    /\ UNCHANGED <<env, device_gid, consecutive_failures, creds, devices, channels, reading,
                   success, tables, db_open, now, out, hist>>

\* The connected status without the reset of the counter.
EmitConnectedNoReset ==
    /\ pc = "emit_connected"
    /\ \E ok \in BOOLEAN :
          IF ok
          THEN /\ out' = Append(out, StatusLine("connected", device_gid))
               /\ pc' = "poll_fetch"
               /\ hist' = [hist EXCEPT !.session_gid = device_gid]
          ELSE /\ out' = out
               /\ RaiseInLoop
    /\ UNCHANGED <<env, session, creds, devices, channels, reading, success, tables,
                   db_open, now>>

\* emit_json({'status': 'connected', ...}); consecutive_failures = 0
EmitConnected ==
    /\ pc = "emit_connected"
    /\ \E ok \in BOOLEAN :
          IF ok
          THEN /\ out' = Append(out, StatusLine("connected", device_gid))
               /\ consecutive_failures' = 0
               /\ pc' = "poll_fetch"
               /\ hist' = [hist EXCEPT !.session_gid = device_gid]
          ELSE /\ out' = out
               /\ consecutive_failures' = consecutive_failures
               /\ RaiseInLoop
    /\ UNCHANGED <<env, vue, device_gid, creds, devices, channels, reading, success, tables,
                   db_open, now>>

\* ------------------------------------------------------------- poll_emporia
\* poll_emporia returns: the history counts the False results in a row.
PollReturns(result) ==
    /\ success' = result
    /\ pc' = "poll_result"
    /\ hist' = [hist EXCEPT !.pollFails = IF result THEN 0 ELSE @ + 1,
                            !.polls = @ + 1]

\* devices = vue.get_device_list_usage(...); if not devices; the channel loop
FetchUsage(payloads) ==
    /\ pc = "poll_fetch"
    /\ \/ \E payload \in payloads :
             /\ channels' = payload
             /\ reading' = PollReading(now, payload)
             /\ pc' = "poll_store"
             /\ hist' = hist
       \/ /\ UNCHANGED <<channels, reading>>
          /\ pc' = "poll_emit_no_data"
          /\ hist' = [hist EXCEPT !.noData = TRUE]
       \/ /\ UNCHANGED <<channels, reading, hist>>
          /\ pc' = "poll_emit_error"
    /\ UNCHANGED <<env, session, creds, devices, success, tables, db_open, now,
                   out>>

PollFetch == FetchUsage(Payloads)

\* An empty answer taken for a successful poll.
PollEmitNoDataSuccess ==
    /\ pc = "poll_emit_no_data"
    /\ \/ /\ out' = Append(out, ErrorLine("no_device_data", None, device_gid, NoNum))
          /\ PollReturns(TRUE)
       \/ /\ out' = out
          /\ pc' = "poll_emit_error"
          /\ UNCHANGED <<success, hist>>
    /\ UNCHANGED <<env, session, creds, devices, channels, reading, tables, db_open, now>>

\* emit_json({'error': 'no_device_data', 'device_gid': device_gid}); return False
PollEmitNoData ==
    /\ pc = "poll_emit_no_data"
    /\ \/ /\ out' = Append(out, ErrorLine("no_device_data", None, device_gid, NoNum))
          /\ PollReturns(FALSE)
       \/ /\ out' = out
          /\ pc' = "poll_emit_error"
          /\ UNCHANGED <<success, hist>>
    /\ UNCHANGED <<env, session, creds, devices, channels, reading, tables, db_open, now>>

\* store_reading(db, ts, total, phase_a, phase_b, circuits)
PollStore ==
    /\ pc = "poll_store"
    /\ Len(power_readings_raw) < MaxReadings
    /\ \/ /\ power_readings_raw' = StoreReading(power_readings_raw, reading)
          /\ pc' = "poll_update"
          /\ hist' = hist
       \/ /\ power_readings_raw' = power_readings_raw
          /\ pc' = "poll_emit_error"
          /\ hist' = [hist EXCEPT !.persistRaised = TRUE]
    /\ UNCHANGED <<env, session, creds, devices, channels, reading, success, power_config,
                   power_learning_status, db_open, now, out>>

\* A bump that raised followed by the reading message all the same.
PollUpdateIgnoreFailure ==
    /\ pc = "poll_update"
    /\ \/ /\ power_learning_status' =
                 UpdateLearningStatus(power_learning_status, reading.ts, now)
          /\ pc' = "poll_emit_reading"
          /\ hist' = [hist EXCEPT !.bumps = Append(@, reading.ts)]
       \/ /\ power_learning_status' = power_learning_status
          /\ pc' = "poll_emit_reading"
          /\ hist' = [hist EXCEPT !.persistRaised = TRUE]
    /\ UNCHANGED <<env, session, creds, devices, channels, reading, success, power_config,
                   power_readings_raw, db_open, now, out>>

\* update_learning_status(db, ts)
PollUpdate ==
    /\ pc = "poll_update"
    /\ \/ /\ power_learning_status' =
                 UpdateLearningStatus(power_learning_status, reading.ts, now)
          /\ pc' = "poll_emit_reading"
          /\ hist' = [hist EXCEPT !.bumps = Append(@, reading.ts)]
       \/ /\ power_learning_status' = power_learning_status
          /\ pc' = "poll_emit_error"
          /\ hist' = [hist EXCEPT !.persistRaised = TRUE]
    /\ UNCHANGED <<env, session, creds, devices, channels, reading, success, power_config,
                   power_readings_raw, db_open, now, out>>

\* emit_json({'type': 'reading', ...}); return True
PollEmitReading ==
    /\ pc = "poll_emit_reading"
    /\ \/ /\ out' = Append(out, PollReadingLine(reading))
          /\ PollReturns(TRUE)
       \/ /\ out' = out
          /\ pc' = "poll_emit_error"
          /\ UNCHANGED <<success, hist>>
    /\ UNCHANGED <<env, session, creds, devices, channels, reading, tables, db_open, now>>

\* except Exception as e: emit_json({'error': str(e), 'type': 'poll_error'}); return False
PollEmitError ==
    /\ pc = "poll_emit_error"
    /\ \/ /\ out' = Append(out, ErrorLine("exception", "poll_error", None, NoNum))
          /\ PollReturns(FALSE)
       \/ /\ out' = out
          /\ success' = success
          /\ RaiseInLoop
    /\ UNCHANGED <<env, session, creds, devices, channels, reading, tables, db_open, now>>

\* A failed poll counted twice.
CountFailureTwice(n) == n + 2

\* consecutive_failures after a failed poll
CountFailure(n) == n + 1

\* The threshold compared with > instead of >=.
PollResultOffByOne ==
    /\ pc = "poll_result"
    /\ IF success
       THEN /\ consecutive_failures' = 0
            /\ vue' = vue
            /\ pc' = "sleep_poll"
       ELSE IF CountFailure(consecutive_failures) > FAILURE_THRESHOLD
       THEN /\ vue' = None
            /\ consecutive_failures' = 0
            /\ pc' = "sleep_reconnect"
       ELSE /\ consecutive_failures' = CountFailure(consecutive_failures)
            /\ vue' = vue
            /\ pc' = "sleep_poll"
    /\ UNCHANGED <<env, device_gid, creds, devices, channels, reading, success, tables,
                   db_open, now, out, hist>>

\* if success: ... else: consecutive_failures += 1; if consecutive_failures >= 5
PollResult ==
    /\ pc = "poll_result"
    /\ IF success
       THEN /\ consecutive_failures' = 0
            /\ vue' = vue
            /\ pc' = "sleep_poll"
       ELSE IF CountFailure(consecutive_failures) >= FAILURE_THRESHOLD
       THEN /\ vue' = None
            /\ consecutive_failures' = 0
            /\ pc' = "sleep_reconnect"
       ELSE /\ consecutive_failures' = CountFailure(consecutive_failures)
            /\ vue' = vue
            /\ pc' = "sleep_poll"
    /\ UNCHANGED <<env, device_gid, creds, devices, channels, reading, success, tables,
                   db_open, now, out, hist>>

\* ------------------------------------------------------------------- sleeps
SleepPcs == {"sleep_demo", "sleep_config", "sleep_no_devices", "sleep_reconnect",
             "sleep_poll", "sleep_error"}

\* Every sleep taken at the poll interval.
SleepSecondsShort(p) == POLL_INTERVAL

\* A poll interval that grows with the failures counted so far.
SleepSecondsBackoff(p) ==
    CASE p = "sleep_demo" -> POLL_INTERVAL
      [] p = "sleep_config" -> WAIT_CONFIG_SLEEP
      [] p = "sleep_no_devices" -> NO_DEVICES_SLEEP
      [] p = "sleep_reconnect" -> RECONNECT_SLEEP
      [] p = "sleep_poll" -> POLL_INTERVAL * (1 + consecutive_failures)
      [] p = "sleep_error" -> ERROR_SLEEP

\* The argument of time.sleep at each position.
SleepSeconds(p) ==
    CASE p = "sleep_demo" -> POLL_INTERVAL
      [] p = "sleep_config" -> WAIT_CONFIG_SLEEP
      [] p = "sleep_no_devices" -> NO_DEVICES_SLEEP
      [] p = "sleep_reconnect" -> RECONNECT_SLEEP
      [] p = "sleep_poll" -> POLL_INTERVAL
      [] p = "sleep_error" -> ERROR_SLEEP

\* time.sleep(...) returns
Sleep ==
    /\ pc \in SleepPcs
    /\ now < MaxTime
    /\ now' = now + 1
    /\ pc' = IF pc = "sleep_no_devices" THEN "reset_no_devices" ELSE "loop"
    /\ hist' = [hist EXCEPT !.lastSleep = SleepSeconds(pc)]
    /\ UNCHANGED <<env, session, creds, devices, channels, reading, success, tables,
                   db_open, out>>

\* ----------------------------------------------------------------- handlers
\* The handler without its emit_json.
HandleErrorSilent ==
    /\ pc = "handler"
    /\ out' = out
    /\ vue' = None
    /\ pc' = "sleep_error"
    /\ UNCHANGED <<env, device_gid, consecutive_failures, creds, devices, channels, reading,
                   success, tables, db_open, now, hist>>

\* except Exception as e: emit_json({'error': str(e), 'retry_in': 60}); vue = None
HandleError ==
    /\ pc = "handler"
    /\ \/ /\ out' = Append(out, ErrorLine("exception", None, None, RETRY_IN))
          /\ vue' = None
          /\ pc' = "sleep_error"
       \/ /\ out' = out
          /\ vue' = vue
          /\ pc' = "crashed"
    /\ UNCHANGED <<env, device_gid, consecutive_failures, creds, devices, channels, reading,
                   success, tables, db_open, now, hist>>

\* Positions inside the try body of main(), poll_emporia included.
TryPcs == {"loop", "demo_store", "demo_update", "demo_emit", "sleep_demo",
           "get_credentials", "emit_waiting", "sleep_config", "emit_connecting",
           "create_client", "login", "get_device_gid", "get_devices",
           "save_device_gid", "emit_no_devices", "sleep_no_devices",
           "reset_no_devices", "emit_connected", "poll_fetch", "poll_emit_no_data",
           "poll_store", "poll_update", "poll_emit_reading", "poll_emit_error",
           "poll_result", "sleep_reconnect", "sleep_poll"}

\* Positions inside the except Exception block of main().
HandlerPcs == {"handler", "sleep_error"}

\* Where a KeyboardInterrupt raised at position p takes main().
InterruptTarget(p) == IF p \in TryPcs THEN "shutdown" ELSE "crashed"

\* KeyboardInterrupt is delivered: except KeyboardInterrupt covers the try body only
Interrupt ==
    /\ pc \in TryPcs \cup HandlerPcs
    /\ pc' = InterruptTarget(pc)
    /\ hist' = [hist EXCEPT !.interrupted = TRUE]
    /\ UNCHANGED <<env, session, creds, devices, channels, reading, success, tables,
                   db_open, now, out>>

\* break; db.close()
Shutdown ==
    /\ pc = "shutdown"
    /\ db_open' = FALSE
    /\ pc' = "exited"
    /\ UNCHANGED <<env, session, creds, devices, channels, reading, success, tables, now,
                   out, hist>>

Next ==
    \/ LoopTop
    \/ DemoStore
    \/ DemoUpdate
    \/ DemoEmit
    \/ CheckCredentials
    \/ EmitWaiting
    \/ EmitConnecting
    \/ CreateClient
    \/ Login
    \/ ResolveDevice
    \/ DiscoverDevices
    \/ SaveDevice
    \/ EmitNoDevices
    \/ ResetNoDevices
    \/ EmitConnected
    \/ PollFetch
    \/ PollEmitNoData
    \/ PollStore
    \/ PollUpdate
    \/ PollEmitReading
    \/ PollEmitError
    \/ PollResult
    \/ Sleep
    \/ HandleError
    \/ Interrupt
    \/ Shutdown

Spec == Init /\ [][Next]_vars

\* ------------------------------------------- one cycle, on any payload
\* Channels a payload is made of: the three main identifiers with usages
\* that round up, down, to even and to 0, a None and a 0 usage, circuits with a
\* repeated name, without name (empty, None) and without usage.
ChannelKinds ==
    { Channel("1,2,3", "Main", 1000000), Channel("1,2,3", "Main", 7005),
      Channel("1,2", "", 550000), Channel("1,2", "", NoNum),
      Channel("3,4", "", 0), Channel("3,4", "Leg B", 450015),
      Channel("3,4", "", 4),
      Channel("5", "Dryer", 300005), Channel("6", "Dryer", 100004),
      Channel("7", "", 5000), Channel("8", None, 6000),
      Channel("9", "Dryer", 0) }

RECURSIVE SeqsUpTo(_, _)
SeqsUpTo(S, n) ==
    IF n = 0 THEN {<< >>}
    ELSE LET shorter == SeqsUpTo(S, n - 1)
         IN  shorter \cup {Append(q, x) : q \in shorter, x \in S}

ChannelSeqs == SeqsUpTo(ChannelKinds, MaxChannels)

ConfiguredFor(gid) ==
    [exists |-> TRUE, emporia_email |-> "user@example.com",
     emporia_password |-> "secret", device_gid |-> gid]

\* A connected session about to poll a payload drawn from ChannelSeqs, or the
\* demo generator about to run.
InitCycle ==
    /\ DEMO_MODE \in BOOLEAN
    /\ PYEMVUE_AVAILABLE = TRUE
    /\ pc = IF DEMO_MODE THEN "demo_store" ELSE "poll_fetch"
    /\ vue = IF DEMO_MODE THEN None ELSE "auth"
    /\ device_gid = IF DEMO_MODE THEN None ELSE "101"
    /\ consecutive_failures = 0
    /\ email = IF DEMO_MODE THEN None ELSE "user@example.com"
    /\ password = IF DEMO_MODE THEN None ELSE "secret"
    /\ devices = << >>
    /\ channels \in IF DEMO_MODE THEN {<< >>} ELSE ChannelSeqs
    /\ reading = NoReading
    /\ success = FALSE
    /\ power_config = ConfiguredFor("101")
    /\ power_readings_raw = << >>
    /\ power_learning_status =
           [first_reading_ts |-> NoNum, total_readings |-> 0, last_updated |-> 0]
    /\ db_open = TRUE
    /\ now = 1
    /\ out = << >>
    /\ hist = [Hist0 EXCEPT !.cfg0 = power_config,
                            !.credsRead = ~DEMO_MODE,
                            !.absent0 = DEMO_MODE,
                            !.session_gid = IF DEMO_MODE THEN None ELSE "101"]

\* get_device_list_usage returns the payload drawn at the start
PollFetchCycle == FetchUsage({channels})

NextCycle ==
    \/ PollFetchCycle
    \/ PollEmitNoData
    \/ PollStore
    \/ PollUpdate
    \/ PollEmitReading
    \/ PollEmitError
    \/ DemoStore
    \/ DemoUpdate
    \/ DemoEmit

SpecCycle == InitCycle /\ [][NextCycle]_vars

\* ================================================================== claims
Demo == DEMO_MODE \/ ~PYEMVUE_AVAILABLE
Ended == pc \in {"shutdown", "exited", "crashed"}

\* C1: five poll_emporia results False in a row on one session force vue = None
\* and consecutive_failures = 0, and both stay so until the next client is
\* created; with fewer than five the session is kept and the counter holds
\* their number.
C1_ForcedReconnectAfterFive ==
    /\ hist.pollFails <= FAILURE_THRESHOLD
    /\ (hist.pollFails = FAILURE_THRESHOLD /\ pc # "poll_result" /\ ~Ended)
          => (vue = None /\ consecutive_failures = 0)
    /\ pc = "sleep_reconnect" => hist.pollFails = FAILURE_THRESHOLD
    /\ pc = "sleep_poll"
          => /\ hist.pollFails < FAILURE_THRESHOLD
             /\ vue = "auth"
             /\ consecutive_failures = hist.pollFails

\* C1 witness: the connection attempt that follows a forced reconnect.
C1_Witness ==
    /\ pc = "emit_connecting"
    /\ hist.pollFails = FAILURE_THRESHOLD
    /\ hist.lastSleep = RECONNECT_SLEEP

Missing(s) == s = None \/ s = ""
CredentialsAbsent(cfg) ==
    ~cfg.exists \/ Missing(cfg.emporia_email) \/ Missing(cfg.emporia_password)

\* Positions of a connection attempt and of a poll cycle.
AttemptPcs == {"emit_connecting", "create_client", "login", "get_device_gid",
               "get_devices", "save_device_gid", "emit_no_devices",
               "sleep_no_devices", "reset_no_devices", "emit_connected"}
PollPcs == {"poll_fetch", "poll_emit_no_data", "poll_store", "poll_update",
            "poll_emit_reading", "poll_emit_error", "poll_result",
            "sleep_reconnect", "sleep_poll"}

\* C2 as stated: with the stored credentials absent no iteration attempts a
\* connection or increments total_readings.
C2_AsStated ==
    CredentialsAbsent(power_config)
       => /\ pc \notin AttemptPcs
          /\ power_learning_status.total_readings = 0

\* C2 amended: with demo mode off and the client library available, while the
\* stored credentials are absent the worker never creates a client, logs in,
\* queries devices or polls, holds no session and stores and counts nothing.
C2_NoAttemptWithoutCredentials ==
    (~Demo /\ CredentialsAbsent(power_config))
       => /\ pc \notin AttemptPcs \cup PollPcs
          /\ vue = None
          /\ power_learning_status.total_readings = 0
          /\ power_readings_raw = << >>

\* C2 witness: a second iteration waiting for configuration, password empty.
C2_Witness ==
    /\ ~Demo
    /\ power_config.exists
    /\ power_config.emporia_email = "user@example.com"
    /\ power_config.emporia_password = ""
    /\ pc = "sleep_config"
    /\ out = << StatusLine("waiting_for_config", None) >>
    /\ hist.lastSleep = WAIT_CONFIG_SLEEP

\* C3 as stated: between iterations total_readings equals the number of rows
\* of power_readings_raw.
C3_CountMatchesRows ==
    pc = "loop" => power_learning_status.total_readings = Len(power_readings_raw)

\* C4: from a row with first_reading_ts unset and total_readings 0, the calls
\* of update_learning_status leave total_readings at their number and
\* first_reading_ts at the timestamp of the first one.
C4_BumpCountsAndKeepsFirst ==
    /\ power_learning_status.total_readings = Len(hist.bumps)
    /\ power_learning_status.first_reading_ts =
          IF hist.bumps = << >> THEN NoNum ELSE hist.bumps[1]

\* C4 witness: two calls with different timestamps.
C4_Witness ==
    /\ Len(hist.bumps) = 2
    /\ hist.bumps[2] > hist.bumps[1]
    /\ power_learning_status.total_readings = 2

InOut(line) == \E i \in DOMAIN out : out[i] = line

\* C5 as stated: once KeyboardInterrupt was delivered, the process ends only
\* with the loop stopped and the sqlite3 connection closed.
C5_InterruptClosesConnection ==
    (hist.interrupted /\ pc \in {"exited", "crashed"}) => ~db_open

\* C6 as stated: the loop of main() ends only by KeyboardInterrupt.
C6_OnlyInterruptEndsLoop == Ended => hist.interrupted

RetryLine == ErrorLine("exception", None, None, RETRY_IN)

\* C7 as stated: once an exception other than KeyboardInterrupt has left the try
\* body and the worker was not interrupted, the line with retry_in = 60 is
\* printed, vue is None, and the next iteration starts after the 60 s sleep.
C7_LoopErrorReportedAndReset ==
    (hist.loopError /\ ~hist.interrupted /\ pc # "handler")
       => /\ InOut(RetryLine)
          /\ vue = None
          /\ pc = "loop" => hist.lastSleep = ERROR_SLEEP

NoDevicesLine == ErrorLine("no_devices_found", None, None, NoNum)

\* C8 as stated: from the no_devices_found line on no authenticated client is
\* held.
C8_AsStated == (InOut(NoDevicesLine) /\ ~Ended) => vue = None

\* C8 amended: an empty device list with no identifier persisted prints
\* connecting and no_devices_found and nothing else, persists nothing and polls
\* nothing; the logged-in client is still held during the 60 s sleep and is
\* dropped when it ends, so the next iteration starts 60 s later with vue None.
C8_NoDevicesCooldown ==
    /\ pc \in {"sleep_no_devices", "reset_no_devices"}
          => /\ InOut(NoDevicesLine)
             /\ vue = "auth"
             /\ hist.queried /\ devices = << >>
    /\ (InOut(NoDevicesLine) /\ ~Ended)
          => /\ pc \in {"sleep_no_devices", "reset_no_devices", "loop"}
             /\ out = << StatusLine("connecting", None), NoDevicesLine >>
             /\ hist.polls = 0
             /\ power_config = hist.cfg0
             /\ Missing(power_config.device_gid)
             /\ pc = "reset_no_devices" => hist.lastSleep = NO_DEVICES_SLEEP
             /\ pc = "loop" => (vue = None /\ hist.lastSleep = NO_DEVICES_SLEEP)

\* C8 witness: the iteration after an empty device list is about to start.
C8_Witness ==
    /\ pc = "loop"
    /\ InOut(NoDevicesLine)
    /\ vue = None
    /\ power_config.exists

LivePcs == {"get_credentials", "emit_waiting", "sleep_config"}
               \cup AttemptPcs \cup PollPcs
IsReading(line) == line.type = "reading"
ReadingsIn(lines) == {i \in DOMAIN lines : IsReading(lines[i])}
DemoCircuits == {"HVAC", "Kitchen", "Living Room", "Office"}

\* C10: in demo mode (forced, or the client library missing) the worker never
\* reads credentials nor attempts a connection; an iteration stores at most one
\* row and bumps at most once, the bump after the store; a reading line is
\* printed only after one store and one bump, is flagged demo and names the
\* four circuits; an iteration that reaches its sleep printed exactly that line.
C10_DemoOnly ==
    Demo =>
       /\ pc \notin LivePcs
       /\ email = None /\ password = None /\ vue = None
       /\ Len(power_readings_raw) - hist.rows0 \in {0, 1}
       /\ power_learning_status.total_readings - hist.total0 \in {0, 1}
       /\ power_learning_status.total_readings - hist.total0
             <= Len(power_readings_raw) - hist.rows0
       /\ \A i \in ReadingsIn(out) :
             /\ i = 1
             /\ out[i].demo
             /\ DOMAIN out[i].circuits = DemoCircuits
             /\ Len(power_readings_raw) - hist.rows0 = 1
             /\ power_learning_status.total_readings - hist.total0 = 1
             /\ out[i] = DemoReadingLine(power_readings_raw[Len(power_readings_raw)])
       /\ pc = "sleep_demo" => (Len(out) = 1 /\ IsReading(out[1]))

\* C10 witness: the library is missing, demo mode is not forced, credentials
\* are stored, and the second demo reading with an idle HVAC was printed.
C10_Witness ==
    /\ ~DEMO_MODE /\ ~PYEMVUE_AVAILABLE
    /\ ~CredentialsAbsent(power_config)
    /\ pc = "sleep_demo"
    /\ Len(power_readings_raw) = 2
    /\ out[1].circuits["HVAC"] = 0

\* ---------------------------------------------------------------- C11
\* The normalization stated over the whole payload, without the loop.
UsageOf(channel) == IF channel.usage = NoNum THEN 0 ELSE channel.usage
MainIds == {"1,2,3", "1,2", "3,4"}
Last(S) == CHOOSE i \in S : \A j \in S : j <= i
WithId(chs, id) == {i \in DOMAIN chs : chs[i].channel_num = id}
LastUsage(chs, id, none) ==
    IF WithId(chs, id) = {} THEN none ELSE UsageOf(chs[Last(WithId(chs, id))])
CircuitChannels(chs) ==
    {i \in DOMAIN chs : /\ chs[i].channel_num \notin MainIds
                        /\ chs[i].name \notin {None, ""}
                        /\ UsageOf(chs[i]) > 0}
ExpectedCircuits(chs) ==
    [n \in {chs[i].name : i \in CircuitChannels(chs)} |->
        UsageOf(chs[Last({i \in CircuitChannels(chs) : chs[i].name = n})])]
ExamplePayload ==
    << Channel("1,2,3", "Main", 1000000), Channel("1,2", "", 550000) >>
Normalized == ~Demo /\ reading.ts # NoNum

\* C11: for every payload, the reading poll_emporia builds has total = the
\* usage of the last "1,2,3" channel (0 if none), phase_a = that of the last
\* "1,2" channel (absent if none), phase_b = that of the last "3,4" channel
\* (absent if none), and circuits = the other channels with a non-empty name
\* and usage > 0, keyed by name, the last such channel of a name winning; the
\* payload total 1000, first leg 550 gives 1000, 550, absent, no circuits.
C11_Normalization ==
    Normalized =>
        /\ reading.total = LastUsage(channels, "1,2,3", 0)
        /\ reading.phase_a = LastUsage(channels, "1,2", NoNum)
        /\ reading.phase_b = LastUsage(channels, "3,4", NoNum)
        /\ reading.circuits = ExpectedCircuits(channels)
        /\ channels = ExamplePayload =>
               /\ reading.total = 1000000 /\ reading.phase_a = 550000
               /\ reading.phase_b = NoNum /\ reading.circuits = NoCircuits

\* A payload with the circuit name Dryer twice and a total overwritten.
C11_Witness ==
    /\ Normalized
    /\ channels = << Channel("5", "Dryer", 300005), Channel("1,2,3", "Main", 7005),
                     Channel("6", "Dryer", 100004) >>
    /\ reading.circuits = [n \in {"Dryer"} |-> 100004]
    /\ reading.total = 7005

\* ---------------------------------------------------------------- C12
\* round(v, 2) if v else None
PhaseOut(v) == IF v = NoNum \/ v = 0 THEN NoNum ELSE Round2(v)
LastRow == power_readings_raw[Len(power_readings_raw)]

\* C12: in every published reading message phase_a (phase_b) is null exactly
\* when the phase value of that reading is absent or 0 and is the rounded
\* value otherwise, while the row stored for the reading keeps the value as
\* it is: a present channel at 0 is stored as 0.
C12_PhaseCoalescedOnlyOnPublish ==
    \A i \in ReadingsIn(out) :
        /\ out[i].phase_a = PhaseOut(reading.phase_a)
        /\ out[i].phase_b = PhaseOut(reading.phase_b)
        /\ (out[i].phase_a = NoNum) = (reading.phase_a \in {NoNum, 0})
        /\ (out[i].phase_b = NoNum) = (reading.phase_b \in {NoNum, 0})
        /\ power_readings_raw # << >>
        /\ LastRow.ts = out[i].ts
        /\ LastRow.phase_a = reading.phase_a
        /\ LastRow.phase_b = reading.phase_b
        /\ ~Demo =>
               /\ LastRow.phase_a = LastUsage(channels, "1,2", NoNum)
               /\ LastRow.phase_b = LastUsage(channels, "3,4", NoNum)

\* A live reading published with the second leg null and stored as 0, the
\* first leg present and rounded.
C12_Witness ==
    /\ ~Demo
    /\ channels = << Channel("1,2", "", 550000), Channel("3,4", "", 0) >>
    /\ \E i \in ReadingsIn(out) :
           out[i].phase_a = 550000 /\ out[i].phase_b = NoNum
    /\ LastRow.phase_b = 0

\* ---------------------------------------------------------------- C13
LastLine == out[Len(out)]
PollFailureLine(line) == line.error \in {"no_device_data", "exception"}
                            /\ line.retry_in = NoNum
\* The message the branch that leads to each sleep has printed last.
BranchMessage(p) ==
    CASE p = "sleep_demo" -> IsReading(LastLine) /\ LastLine.demo
      [] p = "sleep_config" -> LastLine = StatusLine("waiting_for_config", None)
      [] p = "sleep_no_devices" ->
            LastLine = NoDevicesLine /\ InOut(StatusLine("connecting", None))
      [] p = "sleep_poll" ->
            IF success THEN IsReading(LastLine) /\ ~LastLine.demo
            ELSE PollFailureLine(LastLine)
      [] p = "sleep_reconnect" -> PollFailureLine(LastLine)
      [] p = "sleep_error" -> LastLine = RetryLine

\* C13: every iteration of the main loop has printed at least one message by
\* the time it sleeps, whatever its branch: a demo reading, waiting_for_config,
\* connecting and no_devices_found, a live reading, a poll failure (also the
\* one that forces the reconnect), or the error with retry_in after an
\* exception; the messages are still there when the next iteration starts.
C13_EveryIterationEmits ==
    /\ pc \in SleepPcs => out # << >> /\ BranchMessage(pc)
    /\ (pc \in {"loop", "reset_no_devices"} /\ hist.lastSleep # 0) => out # << >>

\* An iteration whose first step raised, asleep after the handler's message.
C13_Witness ==
    /\ pc = "sleep_error"
    /\ out = << RetryLine >>
    /\ hist.loopError

\* ---------------------------------------------------------------- C14
\* The sleep the outcome of the iteration just finished calls for, read from
\* what the iteration printed and from the count of failed polls.
OutcomeSleep ==
    IF hist.loopError THEN 60
    ELSE IF LastLine = StatusLine("waiting_for_config", None) THEN 30
    ELSE IF LastLine = NoDevicesLine THEN 60
    ELSE IF IsReading(LastLine) THEN POLL_INTERVAL
    ELSE IF hist.pollFails = 5 THEN 10
    ELSE POLL_INTERVAL
Slept == pc \in {"loop", "reset_no_devices"} /\ hist.lastSleep # 0

\* C14: the sleep that ended an iteration is fixed by the iteration's outcome:
\* the poll interval after a demo tick, a successful poll or a failed poll
\* below the threshold, 30 s without credentials, 60 s with an empty device
\* list, 10 s at the fifth failed poll in a row, 60 s after an exception; no
\* other duration occurs, however many failures came before.
C14_SleepFixedByOutcome ==
    Slept =>
        /\ hist.lastSleep = OutcomeSleep
        /\ hist.lastSleep \in {POLL_INTERVAL, 10, 30, 60}

\* The third failed poll in a row, followed by the poll interval.
C14_Witness ==
    /\ Slept
    /\ hist.pollFails = 3
    /\ consecutive_failures = 3
    /\ PollFailureLine(LastLine)
    /\ hist.lastSleep = POLL_INTERVAL

\* ---------------------------------------------------------------- C15
\* Inside poll_emporia, or back from it with the result not yet counted.
FirstPollPcs == PollPcs \ {"sleep_reconnect", "sleep_poll"}

\* C15: a connected status is printed right after the connecting status of
\* the same iteration and carries the non-empty device identifier held in
\* memory; through the first poll of the session it opens, the client is the
\* authenticated one and the failure counter is 0.
C15_ConnectedMeansSession ==
    \A i \in DOMAIN out :
        out[i].status = "connected" =>
            /\ i > 1 /\ out[i - 1] = StatusLine("connecting", None)
            /\ Truthy(out[i].device_gid)
            /\ out[i].device_gid = device_gid
            /\ pc \in PollPcs => vue = "auth"
            /\ pc \in FirstPollPcs =>
                   /\ consecutive_failures = 0
                   /\ hist.polls = IF pc = "poll_result" THEN 1 ELSE 0

\* A session opened again after an earlier iteration, about to poll.
C15_Witness ==
    /\ pc = "poll_fetch"
    /\ now = 3
    /\ out = << StatusLine("connecting", None), StatusLine("connected", "202") >>
    /\ vue = "auth" /\ device_gid = "202" /\ consecutive_failures = 0

\* ---------------------------------------------------------------- C16
\* What a step leaves of power_config: the table and its credential rows.
CredentialsKept ==
    /\ power_config'.exists = power_config.exists
    /\ power_config'.emporia_email = power_config.emporia_email
    /\ power_config'.emporia_password = power_config.emporia_password
\* The one write: save_device_gid with the identifier held in memory.
OnlyDeviceGidWritten ==
    power_config' # power_config =>
        /\ pc = "save_device_gid"
        /\ power_config' = [power_config EXCEPT !.device_gid = device_gid]

\* C16: no step of the worker writes or deletes the credential entries of the
\* configuration store, and the only key a step writes is the device
\* identifier.
C16_CredentialsNeverWritten == [][CredentialsKept /\ OnlyDeviceGidWritten]_vars

\* The discovered identifier just persisted next to untouched credentials.
C16_Witness ==
    /\ pc = "emit_connected"
    /\ hist.cfg0.device_gid # "202"
    /\ power_config = [hist.cfg0 EXCEPT !.device_gid = "202"]
    /\ Truthy(power_config.emporia_email)

\* ---------------------------------------------------------------- C17
PollErrorLine == ErrorLine("exception", "poll_error", None, NoNum)
Stored == Len(power_readings_raw) = hist.rows0 + 1
Bumped == power_learning_status.total_readings = hist.total0 + 1
Returned == pc \in {"poll_result", "sleep_poll", "sleep_reconnect"}

\* C17: a reading message, live or demo, is in the output only when the row
\* of that reading has been stored and the learning status bumped for it, the
\* bump never coming before the store; once the store or the bump has
\* raised, the cycle prints no reading message, and the poll_emporia that
\* returns from it has printed poll_error last, returned False and is
\* counted as a failed poll.
C17_StoreBumpEmit ==
    /\ \A i \in ReadingsIn(out) :
           /\ Stored /\ LastRow.ts = out[i].ts
           /\ Bumped /\ hist.bumps # << >>
           /\ hist.bumps[Len(hist.bumps)] = out[i].ts
           /\ ~hist.persistRaised
    /\ Bumped => Stored
    /\ pc \in {"poll_emit_reading", "demo_emit"} => Stored /\ Bumped
    /\ hist.persistRaised =>
           /\ ReadingsIn(out) = {}
           /\ (~Demo /\ Returned) =>
                  /\ ~success
                  /\ LastLine = PollErrorLine
                  /\ hist.pollFails >= 1
                  /\ pc = "sleep_poll" => consecutive_failures = hist.pollFails
                  /\ pc = "sleep_reconnect" => hist.pollFails = 5

\* A live cycle whose row was stored and whose bump raised: asleep after
\* poll_error, the failure counted, no reading printed.
C17_Witness ==
    /\ ~Demo
    /\ hist.persistRaised
    /\ Stored /\ ~Bumped
    /\ pc = "sleep_poll"
    /\ out = << PollErrorLine >>
    /\ consecutive_failures = 1

\* ---------------------------------------------------------------- C18
\* main looks at the result of poll_emporia
Counted == pc = "poll_result" /\ pc' \in {"sleep_poll", "sleep_reconnect"}
CounterStep ==
    /\ consecutive_failures' > consecutive_failures =>
           /\ Counted /\ ~success
           /\ consecutive_failures' = consecutive_failures + 1
    /\ consecutive_failures' < consecutive_failures =>
           /\ consecutive_failures' = 0
           /\ \/ pc = "emit_connected"
              \/ Counted /\ (success \/ consecutive_failures + 1 >= 5)
    /\ (Counted /\ success) => consecutive_failures' = 0
    /\ (Counted /\ ~success /\ consecutive_failures + 1 >= 5) =>
           consecutive_failures' = 0 /\ pc' = "sleep_reconnect"
    /\ (Counted /\ ~success /\ consecutive_failures + 1 < 5) =>
           consecutive_failures' = consecutive_failures + 1
    /\ (pc = "emit_connected" /\ pc' = "poll_fetch") => consecutive_failures' = 0

\* C18: at the start of every iteration consecutive_failures is in 0..4; a
\* step raises it, by one, only when poll_emporia has returned False, and a
\* True result, a new connection and the fifth failure in a row set it to 0.
C18_CounterRange ==
    /\ [](pc = "loop" => consecutive_failures \in 0..4)
    /\ [][CounterStep]_vars

\* An iteration that starts with four failed polls counted.
C18_Witness ==
    /\ pc = "loop"
    /\ consecutive_failures = 4
    /\ hist.pollFails = 4
    /\ vue = "auth"

\* ---------------------------------------------------------------- C19
\* Inside poll_emporia.
InPoll == FirstPollPcs \ {"poll_result"}
Connecting == StatusLine("connecting", None)

\* C19: poll_emporia runs only in an iteration with demo mode off in which
\* get_credentials returned both credentials, with the authenticated client
\* and a non-empty device identifier in memory; an iteration that started
\* without a session (the first, or the one after a forced reconnect or a
\* loop error) has printed connecting and connected before it polls.
C19_PollOnlyWhenConnected ==
    pc \in InPoll =>
        /\ ~Demo
        /\ hist.credsRead /\ Truthy(email) /\ Truthy(password)
        /\ <<email, password>> = GetCredentials(hist.cfg0)
        /\ vue = "auth"
        /\ Truthy(device_gid)
        /\ hist.absent0 =>
               /\ Len(out) >= 2 /\ out[1] = Connecting
               /\ out[2] = StatusLine("connected", device_gid)

\* The poll of the iteration after a 60 s cooldown, a new connection completed.
C19_Witness ==
    /\ pc = "poll_fetch"
    /\ hist.lastSleep = 60
    /\ hist.absent0
    /\ out = << Connecting, StatusLine("connected", "101") >>
    /\ vue = "auth"

\* ---------------------------------------------------------------- C20
NoDataLine == ErrorLine("no_device_data", None, device_gid, NoNum)

\* C20: a poll cycle whose usage query returned no device data stores no
\* reading and bumps nothing, prints no reading, and the poll_emporia that
\* returns from it returned False after the no_device_data line carrying the
\* device identifier (after poll_error when that line could not be printed);
\* main adds it to the failures in a row, the fifth forcing the reconnect.
C20_NoDataIsFailure ==
    hist.noData =>
        /\ Len(power_readings_raw) = hist.rows0
        /\ power_learning_status.total_readings = hist.total0
        /\ ReadingsIn(out) = {}
        /\ Returned =>
               /\ ~success
               /\ LastLine = NoDataLine \/ LastLine = PollErrorLine
               /\ Truthy(LastLine.device_gid) \/ LastLine = PollErrorLine
               /\ hist.pollFails >= 1
               /\ pc = "sleep_poll" =>
                      /\ consecutive_failures = hist.pollFails
                      /\ consecutive_failures \in 1..4
               /\ pc = "sleep_reconnect" =>
                      /\ hist.pollFails = 5
                      /\ consecutive_failures = 0 /\ vue = None

\* The fifth cycle in a row without device data, the reconnect forced.
C20_Witness ==
    /\ hist.noData
    /\ pc = "sleep_reconnect"
    /\ LastLine = NoDataLine
    /\ hist.pollFails = 5
    /\ vue = None

====
